---- MODULE Spec2Model ----
(***************************************************************************)
(* Sequence construction and decoding logic of the LauraGPT-style codec    *)
(* language model (src/exp/tse_wavlm/model.py) and the masked-embedding    *)
(* reconstruction model (src/decoder/wavlm_kmeans_conformer.py).           *)
(*                                                                         *)
(* Tensors are modelled as sequences: a [B, T, E] float tensor is a        *)
(* sequence of B rows, each a sequence of T frames, a frame (an embedding  *)
(* vector) being one integer; a [B, T, n_q] id tensor has a sequence of    *)
(* n_q ids per time step.  The value None is the record NoneVal.           *)
(***************************************************************************)
EXTENDS Integers, Sequences, FiniteSets, TLC

VARIABLES
    \* LauraGenModel.build_llm_io: one call
    bio_pc, bio_predict_nq, bio_text, bio_text_lengths, bio_codec,
    bio_codec_lengths, bio_need_targets, bio_ret,
    \* LauraGenModel.sampling_ids: one call
    sid_pc, sid_weighted_scores, sid_sampling, sid_beam_size, sid_ret,
    \* LauraGenModel._pad_two: one call
    pt_pc, pt_t1, pt_t1_lens, pt_t2, pt_t2_lens, pt_ret,
    \* LauraGenModel.decode_codec: one call
    dc_pc, dc_predict_nq, dc_text_in, dc_aux, dc_text_lengths, dc_aux_lengths,
    dc_max_length, dc_sampling, dc_beam_size, dc_continual,
    dc_text, dc_lens, dc_out_tokens, dc_i, dc_nscore, dc_seq_input, dc_ret, dc_exc,
    dc_caller_continual, dc_shared,
    \* WavLMKmeansConformer.forward and inference_audio: one call of either
    fw_pc, fw_in, fw_emb, fw_mask_ratio, fw_ret,
    ia_pc, ia_x, ia_exc, ia_ret,
    \* LauraGenModel.nll: one call
    nl_pc, nl_predict_nq, nl_text, nl_text_lengths, nl_codec, nl_codec_lengths,
    nl_lm, nl_ret,
    \* LauraGenModel.forward: one call
    lf_pc, lf_predict_nq, lf_text, lf_text_lengths, lf_codec, lf_codec_lengths,
    lf_aux, lf_aux_lengths, lf_lm, lf_ret,
    \* LauraGenModel.decode_codec: two calls with the same arguments
    tw_pc, tw_run, tw_predict_nq, tw_text_in, tw_aux, tw_max_length, tw_sampling,
    tw_beam_size, tw_continual, tw_text, tw_lens, tw_out_tokens, tw_i, tw_ret,
    tw_exc, tw_trace, tw_score, tw_topk, tw_first

nl_vars == <<nl_pc, nl_predict_nq, nl_text, nl_text_lengths, nl_codec, nl_codec_lengths,
             nl_lm, nl_ret>>

lf_vars == <<lf_pc, lf_predict_nq, lf_text, lf_text_lengths, lf_codec, lf_codec_lengths,
             lf_aux, lf_aux_lengths, lf_lm, lf_ret>>

tw_vars == <<tw_pc, tw_run, tw_predict_nq, tw_text_in, tw_aux, tw_max_length, tw_sampling,
             tw_beam_size, tw_continual, tw_text, tw_lens, tw_out_tokens, tw_i, tw_ret,
             tw_exc, tw_trace, tw_score, tw_topk, tw_first>>

fw_vars == <<fw_pc, fw_in, fw_emb, fw_mask_ratio, fw_ret>>

ia_vars == <<ia_pc, ia_x, ia_exc, ia_ret>>

pt_vars == <<pt_pc, pt_t1, pt_t1_lens, pt_t2, pt_t2_lens, pt_ret>>

dc_vars == <<dc_pc, dc_predict_nq, dc_text_in, dc_aux, dc_text_lengths, dc_aux_lengths,
             dc_max_length, dc_sampling, dc_beam_size, dc_continual,
             dc_text, dc_lens, dc_out_tokens, dc_i, dc_nscore, dc_seq_input, dc_ret, dc_exc,
             dc_caller_continual, dc_shared>>

sid_vars == <<sid_pc, sid_weighted_scores, sid_sampling, sid_beam_size, sid_ret>>

bio_vars == <<bio_pc, bio_predict_nq, bio_text, bio_text_lengths, bio_codec,
              bio_codec_lengths, bio_need_targets, bio_ret>>

vars == <<bio_vars, sid_vars, pt_vars, dc_vars, fw_vars, ia_vars, nl_vars, lf_vars, tw_vars>>

(***************************************************************************)
(* A specification exercises one operation; the variables of the others    *)
(* stay at their idle values.                                              *)
(***************************************************************************)
BioIdle ==
    /\ bio_pc = "idle"
    /\ bio_predict_nq = 1
    /\ bio_text = <<>>
    /\ bio_text_lengths = <<>>
    /\ bio_codec = <<>>
    /\ bio_codec_lengths = <<>>
    /\ bio_need_targets = FALSE
    /\ bio_ret = <<>>

SidIdle ==
    /\ sid_pc = "idle"
    /\ sid_weighted_scores = <<>>
    /\ sid_sampling = <<>>
    /\ sid_beam_size = 1
    /\ sid_ret = <<>>

DcIdle ==
    /\ dc_pc = "idle"
    /\ dc_predict_nq = 1
    /\ dc_text_in = <<>>
    /\ dc_aux = <<>>
    /\ dc_text_lengths = <<>>
    /\ dc_aux_lengths = <<>>
    /\ dc_max_length = 0
    /\ dc_sampling = <<>>
    /\ dc_beam_size = 1
    /\ dc_continual = <<>>
    /\ dc_text = <<>>
    /\ dc_lens = <<>>
    /\ dc_out_tokens = <<>>
    /\ dc_i = 0
    /\ dc_nscore = 0
    /\ dc_seq_input = <<>>
    /\ dc_ret = <<>>
    /\ dc_exc = ""
    /\ dc_caller_continual = <<>>
    /\ dc_shared = FALSE

FwIdle ==
    /\ fw_pc = "idle"
    /\ fw_in = <<>>
    /\ fw_emb = <<>>
    /\ fw_mask_ratio = <<>>
    /\ fw_ret = <<>>

IaIdle ==
    /\ ia_pc = "idle"
    /\ ia_x = <<>>
    /\ ia_exc = ""
    /\ ia_ret = <<>>

PtIdle ==
    /\ pt_pc = "idle"
    /\ pt_t1 = <<>>
    /\ pt_t1_lens = <<>>
    /\ pt_t2 = <<>>
    /\ pt_t2_lens = <<>>
    /\ pt_ret = <<>>

NlIdle ==
    /\ nl_pc = "idle"
    /\ nl_predict_nq = 1
    /\ nl_text = <<>>
    /\ nl_text_lengths = <<>>
    /\ nl_codec = <<>>
    /\ nl_codec_lengths = <<>>
    /\ nl_lm = 0
    /\ nl_ret = <<>>

LfIdle ==
    /\ lf_pc = "idle"
    /\ lf_predict_nq = 1
    /\ lf_text = <<>>
    /\ lf_text_lengths = <<>>
    /\ lf_codec = <<>>
    /\ lf_codec_lengths = <<>>
    /\ lf_aux = <<>>
    /\ lf_aux_lengths = <<>>
    /\ lf_lm = 0
    /\ lf_ret = <<>>

TwIdle ==
    /\ tw_pc = "idle"
    /\ tw_run = 0
    /\ tw_predict_nq = 1
    /\ tw_text_in = <<>>
    /\ tw_aux = <<>>
    /\ tw_max_length = 0
    /\ tw_sampling = <<>>
    /\ tw_beam_size = 1
    /\ tw_continual = <<>>
    /\ tw_text = <<>>
    /\ tw_lens = <<>>
    /\ tw_out_tokens = <<>>
    /\ tw_i = 0
    /\ tw_ret = <<>>
    /\ tw_exc = ""
    /\ tw_trace = <<>>
    /\ tw_score = {}
    /\ tw_topk = {}
    /\ tw_first = <<>>

\* The variables of the three operations above, for the other specifications.
MoreIdle == NlIdle /\ LfIdle /\ TwIdle

more_vars == <<nl_vars, lf_vars, tw_vars>>

(***************************************************************************)
(* Bounds of the model.                                                    *)
(***************************************************************************)
Batch == 2
MaxText == 2
MaxCodec == 2
MaxNq == 2
CodebookSize == 2
MaxScore == 2
ExpRange == 1
PDen == 4
MaxBeam == 2
MaxAux == 1
MaxLength == 2
MaxContinual == 1
MaxFrames == 3
MaskDen == 2

(***************************************************************************)
(* Values and library operations.                                          *)
(***************************************************************************)
NoneVal == [none |-> TRUE, val |-> <<>>]

Some(v) == [none |-> FALSE, val |-> v]

IsNone(x) == x.none

Max(a, b) == IF a >= b THEN a ELSE b

Min(a, b) == IF a <= b THEN a ELSE b

RECURSIVE SeqMax(_)
SeqMax(s) == IF s = <<>> THEN 0 ELSE Max(Head(s), SeqMax(Tail(s)))

\* x[:n] of a sequence (n >= 0): the first n elements, fewer if x is shorter.
Take(x, n) == SubSeq(x, 1, Min(n, Len(x)))

\* The slice x[:-n] for n > 0: the last n elements removed, not the first.
DropLast(x, n) == SubSeq(x, 1, Len(x) - Min(n, Len(x)))

\* x[n:] of a sequence (n >= 0).
Drop(x, n) == SubSeq(x, Min(n, Len(x)) + 1, Len(x))

\* self.sos_eos and self.task_id: the two rows of lm_embedding.
sos_eos == 0

task_id == 1

\* The EOS id: self.codebook_size + self.sos_eos.
EosId == CodebookSize + sos_eos

\* self.lm_embedding(idx): the learned embedding of sos_eos / task_id.
LmEmbedding(idx) == 1000 + idx

\* self.kmeans.emb(id): the centroid of a codec id.
KmeansEmb(id) == 2000 + id

\* The frame written as padding (pad value 0.0).
ZeroFrame == 0

\* funcodec pad_list(xs, pad_value): rows padded on the right to the longest.
PadList(xs, pad_value) ==
    LET n == SeqMax([i \in DOMAIN xs |-> Len(xs[i])])
    IN  [i \in DOMAIN xs |->
            [j \in 1..n |-> IF j <= Len(xs[i]) THEN xs[i][j] ELSE pad_value]]

(***************************************************************************)
(* LauraGenModel.build_llm_io                                              *)
(***************************************************************************)

\* calc_dense_vector: asserts one codebook, squeezes it and embeds each id.
CalcDenseAsserts(codec) ==
    \A i \in DOMAIN codec : \A j \in DOMAIN codec[i] : Len(codec[i][j]) = 1

CalcDenseVector(codec) ==
    [i \in DOMAIN codec |-> [j \in DOMAIN codec[i] |-> KmeansEmb(codec[i][j][1])]]

\* OneInput without the slice codec_emb[i, :codec_lengths[i]].
OneInputUnsliced(text, text_lengths, codec_emb, codec_lengths, i) ==
    <<LmEmbedding(sos_eos)>> \o Take(text[i], text_lengths[i])
        \o <<LmEmbedding(task_id)>>
        \o (IF IsNone(codec_emb) THEN <<>> ELSE codec_emb.val[i])

\* Lines 161-175: the inputs and their lengths.  codec_emb is the dense
\* codec, or None when codec or codec_lengths is None.
OneInput(text, text_lengths, codec_emb, codec_lengths, i) ==
    <<LmEmbedding(sos_eos)>> \o Take(text[i], text_lengths[i])
        \o <<LmEmbedding(task_id)>>
        \o (IF IsNone(codec_emb) THEN <<>>
            ELSE Take(codec_emb.val[i], codec_lengths.val[i]))

LlmInputs(text, text_lengths, codec_emb, codec_lengths) ==
    PadList([i \in DOMAIN text_lengths |->
                OneInput(text, text_lengths, codec_emb, codec_lengths, i)],
            ZeroFrame)

LlmLengths(text_lengths, codec_emb, codec_lengths) ==
    [i \in DOMAIN text_lengths |->
        text_lengths[i] + 2
            + (IF IsNone(codec_emb) THEN 0 ELSE codec_lengths.val[i])]

\* LlmTargets writing EOS at the last time step of the batch for every row.
LlmTargetsEosAtEnd(text, codec, codec_lengths, predict_nq) ==
    LET tt == SeqMax(codec_lengths) + 1
    IN  [i \in DOMAIN text |->
            [j \in 1..tt |->
                [q \in 1..predict_nq |->
                    IF j <= codec_lengths[i] THEN codec[i][j][1]
                    ELSE IF j = tt THEN EosId
                    ELSE 0]]]

\* Lines 180-184: the targets, zeros overwritten by the codec ids
\* (broadcast over the predict_nq columns) and one EOS row.
LlmTargets(text, codec, codec_lengths, predict_nq) ==
    LET tt == SeqMax(codec_lengths) + 1
    IN  [i \in DOMAIN text |->
            [j \in 1..tt |->
                [q \in 1..predict_nq |->
                    IF j <= codec_lengths[i] THEN codec[i][j][1]
                    ELSE IF j = codec_lengths[i] + 1 THEN EosId
                    ELSE 0]]]

TargetLengths(codec_lengths) ==
    [i \in DOMAIN codec_lengths |-> codec_lengths[i] + 1]

\* build_llm_io without the assertion of lines 157-159: a call that needs
\* targets but has no codec builds the inputs and returns them.
BuildLlmIoNoAssert(text, text_lengths, codec, codec_lengths, need_targets, predict_nq) ==
    LET has_codec == ~IsNone(codec) /\ ~IsNone(codec_lengths)
        targets == need_targets /\ has_codec
    IN  IF has_codec /\ ~CalcDenseAsserts(codec.val)
        THEN [raised |-> TRUE, exc |-> "AssertionError:calc_dense_vector",
              built |-> FALSE, has_targets |-> FALSE,
              llm_inputs |-> <<>>, llm_lengths |-> <<>>,
              llm_targets |-> <<>>, target_lengths |-> <<>>]
        ELSE LET codec_emb == IF has_codec THEN Some(CalcDenseVector(codec.val))
                              ELSE NoneVal
             IN  [raised |-> FALSE, exc |-> "",
                  built |-> TRUE, has_targets |-> targets,
                  llm_inputs |-> LlmInputs(text, text_lengths, codec_emb, codec_lengths),
                  llm_lengths |-> LlmLengths(text_lengths, codec_emb, codec_lengths),
                  llm_targets |-> IF targets
                                  THEN LlmTargets(text, codec.val, codec_lengths.val, predict_nq)
                                  ELSE <<>>,
                  target_lengths |-> IF targets
                                     THEN TargetLengths(codec_lengths.val)
                                     ELSE <<>>]

\* The whole call: [raised, exc] or the returned tuple.
BuildLlmIo(text, text_lengths, codec, codec_lengths, need_targets, predict_nq) ==
    LET has_codec == ~IsNone(codec) /\ ~IsNone(codec_lengths)
    IN  IF need_targets /\ ~has_codec
        THEN [raised |-> TRUE, exc |-> "AssertionError:need_target",
              built |-> FALSE, has_targets |-> FALSE,
              llm_inputs |-> <<>>, llm_lengths |-> <<>>,
              llm_targets |-> <<>>, target_lengths |-> <<>>]
        ELSE IF has_codec /\ ~CalcDenseAsserts(codec.val)
        THEN [raised |-> TRUE, exc |-> "AssertionError:calc_dense_vector",
              built |-> FALSE, has_targets |-> FALSE,
              llm_inputs |-> <<>>, llm_lengths |-> <<>>,
              llm_targets |-> <<>>, target_lengths |-> <<>>]
        ELSE LET codec_emb == IF has_codec THEN Some(CalcDenseVector(codec.val))
                              ELSE NoneVal
             IN  [raised |-> FALSE, exc |-> "",
                  built |-> TRUE, has_targets |-> need_targets,
                  llm_inputs |-> LlmInputs(text, text_lengths, codec_emb, codec_lengths),
                  llm_lengths |-> LlmLengths(text_lengths, codec_emb, codec_lengths),
                  llm_targets |-> IF need_targets
                                  THEN LlmTargets(text, codec.val, codec_lengths.val, predict_nq)
                                  ELSE <<>>,
                  target_lengths |-> IF need_targets
                                     THEN TargetLengths(codec_lengths.val)
                                     ELSE <<>>]

\* The inputs of a call: text frames tagged by their position, codec ids
\* from a family of tensors over the codebook.
TextTensor(b, t) == [i \in 1..b |-> [j \in 1..t |-> 10 * i + j]]

CodecTensor(b, t, nq, shift) ==
    [i \in 1..b |-> [j \in 1..t |-> [q \in 1..nq |-> (i + j + q + shift) % CodebookSize]]]

Lengths(b, m) == [1..b -> 0..m]

InitBuild ==
    /\ bio_pc = "call"
    /\ bio_predict_nq \in 1..MaxNq
    /\ bio_text = TextTensor(Batch, MaxText)
    /\ bio_text_lengths \in Lengths(Batch, MaxText)
    /\ bio_codec \in {NoneVal} \cup
          {Some(CodecTensor(Batch, MaxCodec, nq, s)) : nq \in 1..MaxNq, s \in 0..(CodebookSize - 1)}
    /\ bio_codec_lengths \in {NoneVal} \cup {Some(l) : l \in Lengths(Batch, MaxCodec)}
    /\ bio_need_targets \in BOOLEAN
    /\ bio_ret = <<>>
    /\ SidIdle /\ PtIdle /\ DcIdle /\ FwIdle /\ IaIdle /\ MoreIdle

CallBuildLlmIo ==
    /\ bio_pc = "call"
    /\ bio_ret' = BuildLlmIo(bio_text, bio_text_lengths, bio_codec,
                             bio_codec_lengths, bio_need_targets, bio_predict_nq)
    /\ bio_pc' = IF bio_ret'.raised THEN "raised" ELSE "done"
    /\ UNCHANGED <<bio_predict_nq, bio_text, bio_text_lengths, bio_codec,
                   bio_codec_lengths, bio_need_targets>>
    /\ UNCHANGED <<sid_vars, pt_vars, dc_vars, fw_vars, ia_vars, more_vars>>

NextBuild == CallBuildLlmIo

SpecBuild == InitBuild /\ [][NextBuild]_vars

(***************************************************************************)
(* LauraGenModel.sampling_ids                                              *)
(*                                                                         *)
(* weighted_scores is a function from the ids 0..CodebookSize (EOS last)   *)
(* to integer scores.  A sampling argument is a record: type "bool" with   *)
(* b, type "int" with k, type "float" with the value pnum / PDen, or type  *)
(* "other" (any value that is no bool, int or float).                      *)
(***************************************************************************)
Ids == 0..CodebookSize

ScoreVectors == [Ids -> 0..MaxScore]

RECURSIVE Pow2(_)
Pow2(n) == IF n <= 0 THEN 1 ELSE 2 * Pow2(n - 1)

RECURSIVE SumOver(_, _)
SumOver(f, S) ==
    IF S = {} THEN 0
    ELSE LET x == CHOOSE y \in S : TRUE IN f[x] + SumOver(f, S \ {x})

MaxOver(f, S) == CHOOSE m \in {f[x] : x \in S} : \A x \in S : f[x] <= m

\* softmax(dim=0) in floating point, as unnormalised weights: the weight of
\* an id is 2^(score - max score), and underflows to 0 once the score is
\* more than ExpRange below the maximum.  The probability of id x is
\* Softmax(scores)[x] / SumOver(Softmax(scores), Ids).
Softmax(scores) ==
    LET m == MaxOver(scores, Ids)
    IN  [x \in Ids |-> IF m - scores[x] > ExpRange THEN 0
                       ELSE Pow2(ExpRange - (m - scores[x]))]

\* topk(k)[1]: the indices of the k largest values, largest first; the choice
\* among equal values is not specified, so every valid choice is a result.
\* The set is empty when k is out of range (torch raises).
TopkResults(values, k) ==
    IF k < 0 \/ k > Cardinality(DOMAIN values) THEN {}
    ELSE {s \in [1..k -> DOMAIN values] :
            /\ \A a, b \in 1..k : a < b => (s[a] # s[b] /\ values[s[a]] >= values[s[b]])
            /\ \A x \in DOMAIN values :
                  (\A a \in 1..k : s[a] # x) => \A a \in 1..k : values[x] <= values[s[a]]}

\* sort(descending=True, stable=True)[1]: the ids by descending value, equal
\* values in ascending id order.
RECURSIVE SortedIdx(_, _)
SortedIdx(values, S) ==
    IF S = {} THEN <<>>
    ELSE LET x == CHOOSE y \in S :
                    \A z \in S : values[y] > values[z] \/ (values[y] = values[z] /\ y <= z)
         IN  <<x>> \o SortedIdx(values, S \ {x})

\* prob.multinomial(beam_size, replacement=True): beam_size positions of prob,
\* each of nonzero weight; no result (torch raises) for an empty or all-zero prob.
MultinomialResults(prob, beam_size) ==
    [1..beam_size -> {a \in DOMAIN prob : prob[a] > 0}]

\* Lines 475-484 with len(indices) = n so far and cum_prob = cum / total:
\* the number of sorted ids the loop appends.
RECURSIVE NucleusLen(_, _, _, _, _, _)
NucleusLen(sorted_idx, w, total, pnum, n, cum) ==
    IF n < Len(sorted_idx) /\ cum * PDen < pnum * total
    THEN NucleusLen(sorted_idx, w, total, pnum, n + 1, cum + w[sorted_idx[n + 1]])
    ELSE n

NucleusIndices(scores, pnum) ==
    LET w == Softmax(scores)
        sorted_idx == SortedIdx(w, Ids)
    IN  SubSeq(sorted_idx, 1, NucleusLen(sorted_idx, w, SumOver(w, Ids), pnum, 0, 0))

SampleRaise(exc, indices) ==
    [raised |-> TRUE, exc |-> exc, top_ids |-> <<>>, indices |-> indices]

SampleReturn(top_ids, indices) ==
    [raised |-> FALSE, exc |-> "", top_ids |-> top_ids, indices |-> indices]

\* indices[sampling_ids] for every draw from prob, or the RuntimeError.
DrawFrom(prob, indices, beam_size) ==
    IF MultinomialResults(prob, beam_size) = {}
    THEN {SampleRaise("RuntimeError", indices)}
    ELSE {SampleReturn([a \in 1..beam_size |-> indices[d[a]]], indices) :
            d \in MultinomialResults(prob, beam_size)}

\* Line 467: draws over the full distribution.
SampleFull(scores, beam_size) ==
    LET w == Softmax(scores)
        all == SortedIdx([x \in Ids |-> 0], Ids)
    IN  DrawFrom([a \in 1..Len(all) |-> w[all[a]]], all, beam_size)

\* The top-beam branch drawing from the distribution, as the True branch does.
SampleTopBeamDraws(scores, beam_size) == SampleFull(scores, beam_size)

\* Line 469: the top beam_size ids.
SampleTopBeam(scores, beam_size) ==
    IF TopkResults(scores, beam_size) = {}
    THEN {SampleRaise("RuntimeError", <<>>)}
    ELSE {SampleReturn(s, <<>>) : s \in TopkResults(scores, beam_size)}

\* Top-k sampling whose draw indexes the vocabulary, not the top-k indices
\* (top_ids = sampling_ids in place of indices[sampling_ids]).
SampleTopKUnmapped(scores, k, beam_size) ==
    LET w == Softmax(scores)
        all == SortedIdx([x \in Ids |-> 0], Ids)
    IN  IF TopkResults(w, k) = {}
        THEN {SampleRaise("RuntimeError", <<>>)}
        ELSE UNION {DrawFrom([a \in 1..k |-> w[indices[a]]], all, beam_size) :
                        indices \in TopkResults(w, k)}

\* Lines 471-473: top-k sampling.
SampleTopK(scores, k, beam_size) ==
    LET w == Softmax(scores)
    IN  IF TopkResults(w, k) = {}
        THEN {SampleRaise("RuntimeError", <<>>)}
        ELSE UNION {DrawFrom([a \in 1..k |-> w[indices[a]]], indices, beam_size) :
                        indices \in TopkResults(w, k)}

\* Lines 475-488: nucleus sampling.
SampleNucleus(scores, pnum, beam_size) ==
    LET w == Softmax(scores)
        indices == NucleusIndices(scores, pnum)
    IN  DrawFrom([a \in 1..Len(indices) |-> w[indices[a]]], indices, beam_size)

\* isinstance(sampling, cls) for cls among bool, int and float: a bool is
\* also an instance of int.
IsInstance(sampling, cls) ==
    sampling.type = cls \/ (cls = "int" /\ sampling.type = "bool")

\* sampling_ids testing int before bool: True and False take the top-k branch.
SamplingIdsIntFirst(weighted_scores, sampling, beam_size) ==
    IF IsInstance(sampling, "int")
    THEN SampleTopK(weighted_scores, sampling.k, beam_size)
    ELSE IF IsInstance(sampling, "bool")
    THEN IF sampling.b THEN SampleFull(weighted_scores, beam_size)
         ELSE SampleTopBeam(weighted_scores, beam_size)
    ELSE IF IsInstance(sampling, "float")
    THEN SampleNucleus(weighted_scores, sampling.pnum, beam_size)
    ELSE {SampleRaise("NotImplementedError", <<>>)}

\* sampling_ids: every outcome of one call.
SamplingIds(weighted_scores, sampling, beam_size) ==
    IF IsInstance(sampling, "bool")
    THEN IF sampling.b THEN SampleFull(weighted_scores, beam_size)
         ELSE SampleTopBeam(weighted_scores, beam_size)
    ELSE IF IsInstance(sampling, "int")
    THEN SampleTopK(weighted_scores, sampling.k, beam_size)
    ELSE IF IsInstance(sampling, "float")
    THEN SampleNucleus(weighted_scores, sampling.pnum, beam_size)
    ELSE {SampleRaise("NotImplementedError", <<>>)}

\* A bool sampling; k is its value as an int (True is 1, False is 0).
SamplingBool(b) == [type |-> "bool", b |-> b, k |-> IF b THEN 1 ELSE 0, pnum |-> 0]

SamplingInt(k) == [type |-> "int", b |-> FALSE, k |-> k, pnum |-> 0]

SamplingFloat(pnum) == [type |-> "float", b |-> FALSE, k |-> 0, pnum |-> pnum]

SamplingOther == [type |-> "other", b |-> FALSE, k |-> 0, pnum |-> 0]

SamplingValues ==
    {SamplingBool(b) : b \in BOOLEAN}
        \cup {SamplingInt(k) : k \in 0..(CodebookSize + 2)}
        \cup {SamplingFloat(pnum) : pnum \in 0..(PDen + 1)}
        \cup {SamplingOther}

InitSampling ==
    /\ sid_pc = "call"
    /\ sid_weighted_scores \in ScoreVectors
    /\ sid_sampling \in SamplingValues
    /\ sid_beam_size \in 1..MaxBeam
    /\ sid_ret = SampleReturn(<<>>, <<>>)
    /\ BioIdle /\ PtIdle /\ DcIdle /\ FwIdle /\ IaIdle /\ MoreIdle

CallSamplingIds ==
    /\ sid_pc = "call"
    /\ sid_ret' \in SamplingIds(sid_weighted_scores, sid_sampling, sid_beam_size)
    /\ sid_pc' = IF sid_ret'.raised THEN "raised" ELSE "done"
    /\ UNCHANGED <<sid_weighted_scores, sid_sampling, sid_beam_size>>
    /\ UNCHANGED <<bio_vars, pt_vars, dc_vars, fw_vars, ia_vars, more_vars>>

NextSampling == CallSamplingIds

SpecSampling == InitSampling /\ [][NextSampling]_vars

(***************************************************************************)
(* LauraGenModel._pad_two                                                  *)
(***************************************************************************)

\* _pad_two concatenating the whole row of t1, padding included, with t2.
PadTwoUnsliced(t1, t1_lens, t2, t2_lens) ==
    [res |-> PadList([i \in DOMAIN t1_lens |-> t1[i] \o Take(t2[i], t2_lens[i])],
                     ZeroFrame),
     res_lens |-> [i \in DOMAIN t1_lens |-> t1_lens[i] + t2_lens[i]]]

\* Lines 374-379.
PadTwo(t1, t1_lens, t2, t2_lens) ==
    [res |-> PadList([i \in DOMAIN t1_lens |->
                        Take(t1[i], t1_lens[i]) \o Take(t2[i], t2_lens[i])],
                     ZeroFrame),
     res_lens |-> [i \in DOMAIN t1_lens |-> t1_lens[i] + t2_lens[i]]]

\* The docstring's example (lines 364-372).
DocT1 == <<<<1, 2, 3, 0, 0>>, <<-1, -2, 0, 0, 0>>, <<100, 0, 0, 0, 0>>>>

DocT1Len == <<3, 2, 1>>

DocT2 == <<<<10, 20, 30, 40, 0>>, <<-10, -20, 0, 0, 0>>, <<1000, 0, 0, 0, 0>>>>

DocT2Len == <<4, 2, 1>>

DocRes == <<<<1, 2, 3, 10, 20, 30, 40>>, <<-1, -2, -10, -20, 0, 0, 0>>,
            <<100, 1000, 0, 0, 0, 0, 0>>>>

DocResLen == <<7, 4, 2>>

\* The second tensor of a general call: frames tagged by position, distinct
\* from those of TextTensor.
OtherTensor(b, t) == [i \in 1..b |-> [j \in 1..t |-> 0 - (10 * i + j)]]

InitPadTwo ==
    /\ pt_pc = "call"
    /\ \/ /\ pt_t1 = TextTensor(Batch, MaxText + 1)
          /\ pt_t1_lens \in Lengths(Batch, MaxText)
          /\ pt_t2 = OtherTensor(Batch, MaxCodec + 1)
          /\ pt_t2_lens \in Lengths(Batch, MaxCodec)
       \/ /\ pt_t1 = DocT1 /\ pt_t1_lens = DocT1Len
          /\ pt_t2 = DocT2 /\ pt_t2_lens = DocT2Len
    /\ pt_ret = <<>>
    /\ BioIdle /\ SidIdle /\ DcIdle /\ FwIdle /\ IaIdle /\ MoreIdle

CallPadTwo ==
    /\ pt_pc = "call"
    /\ pt_ret' = PadTwo(pt_t1, pt_t1_lens, pt_t2, pt_t2_lens)
    /\ pt_pc' = "done"
    /\ UNCHANGED <<pt_t1, pt_t1_lens, pt_t2, pt_t2_lens>>
    /\ UNCHANGED <<bio_vars, sid_vars, dc_vars, fw_vars, ia_vars, more_vars>>

NextPadTwo == CallPadTwo

SpecPadTwo == InitPadTwo /\ [][NextPadTwo]_vars

(***************************************************************************)
(* LauraGenModel.decode_codec                                              *)
(*                                                                         *)
(* dc_pc follows the call: "call" (before line 514), "loop" (at the head   *)
(* of the for loop, dc_i iterations started so far), "post" (after the     *)
(* loop), "done" (returned dc_ret) or "raised" (dc_exc).  dc_nscore counts *)
(* the calls of codec_lm.score, dc_seq_input is the last input given to it.*)
(* dc_continual is the argument as it was at the call, dc_caller_continual *)
(* the content of the caller's list object, and dc_shared tells whether    *)
(* out_tokens is that same object.                                         *)
(***************************************************************************)

\* torch.any(row == codebook_size + sos_eos): some quantizer id of the row is EOS.
HasEos(row) == \E q \in DOMAIN row : row[q] = EosId

Last(xs) == xs[Len(xs)]

\* Line 529 with one iteration too many.
LoopContinuesOffByOne(i, max_length) == i <= max_length

\* Line 529: range(max_length) has a next value after i iterations.
LoopContinues(i, max_length) == i < max_length

\* Lines 530-535: the loop stops on a last row holding EOS.
BreakOnEos(out_tokens) == Len(out_tokens) > 0 /\ HasEos(Last(out_tokens))

\* out_tokens bound to the caller's list itself, without a copy.
SameList(continual) == [rows |-> continual, shared |-> TRUE]

\* Line 524, deepcopy(continual): a new list of the same rows.
Deepcopy(continual) == [rows |-> continual, shared |-> FALSE]

\* Lines 530-545: the language-model input of one iteration (a build_llm_io
\* result, which may have raised).
DecodeInput(text, text_lengths, out_tokens, predict_nq) ==
    IF Len(out_tokens) > 0
    THEN BuildLlmIo(text, text_lengths, Some(<<out_tokens>>),
                    Some(<<Len(out_tokens)>>), FALSE, predict_nq)
    ELSE BuildLlmIo(text, text_lengths, NoneVal, NoneVal, FALSE, predict_nq)

\* Lines 559-560 testing only the first quantizer of the last row.
RemoveEosFirstQuantizer(out_tokens) ==
    IF Last(out_tokens)[1] = EosId THEN SubSeq(out_tokens, 1, Len(out_tokens) - 1)
    ELSE out_tokens

\* Lines 559-560: the last row is removed when it holds EOS.
RemoveEos(out_tokens) ==
    IF HasEos(Last(out_tokens)) THEN SubSeq(out_tokens, 1, Len(out_tokens) - 1)
    ELSE out_tokens

\* The outputs of codec_lm.score for one quantizer: a peak on one id, or flat.
DecodeScores ==
    {[y \in Ids |-> IF y = x THEN MaxScore ELSE 0] : x \in Ids} \cup {[y \in Ids |-> 0]}

\* Lines 551-554: every row of predict_nq ids the sampling can give, with
\* raised set when a sampling_ids call raises.
SampledRows(sampling, beam_size, predict_nq) ==
    LET outcomes == UNION {SamplingIds(pred, sampling, beam_size) : pred \in DecodeScores}
        good == {o.top_ids[1] : o \in {r \in outcomes : ~r.raised}}
        bad == {o.exc : o \in {r \in outcomes : r.raised}}
    IN  {[raised |-> FALSE, exc |-> "", row |-> r] : r \in [1..predict_nq -> good]}
            \cup {[raised |-> TRUE, exc |-> x, row |-> <<>>] : x \in bad}

\* The sampling arguments of the calls explored.
DecodeSamplings ==
    {SamplingBool(TRUE), SamplingBool(FALSE), SamplingInt(1), SamplingFloat(PDen),
     SamplingFloat(0), SamplingOther}

\* The rows of a continual list: no EOS (e = 0) or EOS in quantizer e.
ContinualRows(nq) ==
    {[q \in 1..nq |-> IF q = e THEN EosId ELSE 0] : e \in 0..nq}

ContinualLists(nq) ==
    UNION {[1..n -> ContinualRows(nq)] : n \in 0..MaxContinual}

InitDecode ==
    /\ dc_pc = "call"
    /\ dc_predict_nq \in 1..MaxNq
    /\ dc_text_in = TextTensor(1, MaxText)[1]
    /\ dc_aux \in {NoneVal} \cup {Some(OtherTensor(1, a)[1]) : a \in 0..MaxAux}
    /\ dc_text_lengths \in {NoneVal, Some(<<MaxText>>)}
    /\ dc_aux_lengths \in {NoneVal} \cup
          (IF IsNone(dc_aux) THEN {} ELSE {Some(<<Len(dc_aux.val)>>)})
    /\ dc_max_length \in 0..MaxLength
    /\ dc_sampling \in DecodeSamplings
    /\ dc_beam_size = 1
    /\ dc_continual \in {NoneVal} \cup {Some(c) : c \in ContinualLists(dc_predict_nq)}
    /\ dc_text = <<>>
    /\ dc_lens = <<>>
    /\ dc_out_tokens = <<>>
    /\ dc_i = 0
    /\ dc_nscore = 0
    /\ dc_seq_input = <<>>
    /\ dc_ret = <<>>
    /\ dc_exc = ""
    /\ dc_caller_continual = dc_continual
    /\ dc_shared = FALSE
    /\ BioIdle /\ SidIdle /\ PtIdle /\ FwIdle /\ IaIdle /\ MoreIdle

dc_inputs == <<dc_predict_nq, dc_text_in, dc_aux, dc_text_lengths, dc_aux_lengths,
               dc_max_length, dc_sampling, dc_beam_size, dc_continual>>

\* Lines 514-528: text = [aux, text], the lengths, out_tokens.
DecodeSetup ==
    /\ dc_pc = "call"
    /\ dc_text' = <<(IF IsNone(dc_aux) THEN <<>> ELSE dc_aux.val) \o dc_text_in>>
    /\ IF IsNone(dc_text_lengths)
       THEN /\ dc_lens' = <<Len(dc_text'[1])>>
            /\ dc_pc' = "loop" /\ dc_exc' = ""
       ELSE IF IsNone(dc_aux_lengths)
       THEN /\ dc_lens' = <<>>
            /\ dc_pc' = "raised" /\ dc_exc' = "TypeError"
       ELSE /\ dc_lens' = <<dc_text_lengths.val[1] + dc_aux_lengths.val[1]>>
            /\ dc_pc' = "loop" /\ dc_exc' = ""
    /\ IF dc_pc' = "raised" \/ IsNone(dc_continual)
       THEN dc_out_tokens' = <<>> /\ dc_shared' = FALSE
       ELSE /\ dc_out_tokens' = Deepcopy(dc_continual.val).rows
            /\ dc_shared' = Deepcopy(dc_continual.val).shared
    /\ UNCHANGED <<dc_inputs, dc_i, dc_nscore, dc_seq_input, dc_ret, dc_caller_continual>>
    /\ UNCHANGED <<bio_vars, sid_vars, pt_vars, fw_vars, ia_vars, more_vars>>

\* Lines 529-535: an iteration that finds EOS in the last row and breaks.
DecodeBreak ==
    /\ dc_pc = "loop"
    /\ LoopContinues(dc_i, dc_max_length)
    /\ BreakOnEos(dc_out_tokens)
    /\ dc_i' = dc_i + 1
    /\ dc_pc' = "post"
    /\ UNCHANGED <<dc_inputs, dc_text, dc_lens, dc_out_tokens, dc_nscore,
                   dc_seq_input, dc_ret, dc_exc, dc_caller_continual, dc_shared>>
    /\ UNCHANGED <<bio_vars, sid_vars, pt_vars, fw_vars, ia_vars, more_vars>>

\* Lines 529-555: an iteration that builds the input, scores, samples the
\* predict_nq ids and appends the row.
DecodeStep ==
    /\ dc_pc = "loop"
    /\ LoopContinues(dc_i, dc_max_length)
    /\ ~BreakOnEos(dc_out_tokens)
    /\ dc_i' = dc_i + 1
    /\ LET io == DecodeInput(dc_text, dc_lens, dc_out_tokens, dc_predict_nq)
       IN  IF io.raised
           THEN /\ dc_pc' = "raised" /\ dc_exc' = "AssertionError"
                /\ UNCHANGED <<dc_out_tokens, dc_nscore, dc_seq_input>>
           ELSE /\ dc_seq_input' = io.llm_inputs[1]
                /\ dc_nscore' = dc_nscore + 1
                /\ \E r \in SampledRows(dc_sampling, dc_beam_size, dc_predict_nq) :
                      IF r.raised
                      THEN /\ dc_pc' = "raised" /\ dc_exc' = r.exc
                           /\ UNCHANGED dc_out_tokens
                      ELSE /\ dc_pc' = "loop" /\ dc_exc' = ""
                           /\ dc_out_tokens' = Append(dc_out_tokens, r.row)
    /\ dc_caller_continual' = IF dc_shared THEN Some(dc_out_tokens')
                              ELSE dc_caller_continual
    /\ UNCHANGED <<dc_inputs, dc_text, dc_lens, dc_ret, dc_shared>>
    /\ UNCHANGED <<bio_vars, sid_vars, pt_vars, fw_vars, ia_vars, more_vars>>

\* Line 529: range(max_length) is exhausted.
DecodeExhausted ==
    /\ dc_pc = "loop"
    /\ ~LoopContinues(dc_i, dc_max_length)
    /\ dc_pc' = "post"
    /\ UNCHANGED <<dc_inputs, dc_text, dc_lens, dc_out_tokens, dc_i, dc_nscore,
                   dc_seq_input, dc_ret, dc_exc, dc_caller_continual, dc_shared>>
    /\ UNCHANGED <<bio_vars, sid_vars, pt_vars, fw_vars, ia_vars, more_vars>>

\* Lines 558-561: the EOS row is removed (out_tokens[:-1] is a new list) and
\* the rows after the first aux.size(1) are returned.
DecodeFinish ==
    /\ dc_pc = "post"
    /\ IF Len(dc_out_tokens) = 0
       THEN /\ dc_pc' = "raised" /\ dc_exc' = "IndexError"
            /\ UNCHANGED <<dc_out_tokens, dc_ret>>
       ELSE /\ dc_out_tokens' = RemoveEos(dc_out_tokens)
            /\ IF IsNone(dc_aux)
               THEN /\ dc_pc' = "raised" /\ dc_exc' = "AttributeError"
                    /\ UNCHANGED dc_ret
               ELSE /\ dc_pc' = "done" /\ dc_exc' = ""
                    /\ dc_ret' = Drop(dc_out_tokens', Len(dc_aux.val))
    /\ UNCHANGED <<dc_inputs, dc_text, dc_lens, dc_i, dc_nscore, dc_seq_input,
                   dc_caller_continual, dc_shared>>
    /\ UNCHANGED <<bio_vars, sid_vars, pt_vars, fw_vars, ia_vars, more_vars>>

NextDecode ==
    \/ DecodeSetup
    \/ DecodeBreak
    \/ DecodeStep
    \/ DecodeExhausted
    \/ DecodeFinish

SpecDecode == InitDecode /\ [][NextDecode]_vars

(***************************************************************************)
(* WavLMKmeansConformer (src/decoder/wavlm_kmeans_conformer.py)            *)
(*                                                                         *)
(* fw_emb is the tensor object the caller passes to forward (which forward *)
(* may write to), fw_in its value at the call.  A mask ratio is None or    *)
(* the float num / MaskDen.                                                *)
(***************************************************************************)

\* self.mask_emb: torch.zeros(1024), a frame of zeros (lines 35-37).
MaskEmb == ZeroFrame

\* int(emb.size(1) * mask_ratio) for a ratio num / MaskDen >= 0 (line 56).
NumMask(t, num) == (t * num) \div MaskDen

\* torch.randperm(t)[:num_mask]: any num_mask distinct time steps (line 57).
MaskIndexSets(t, num_mask) == {m \in SUBSET (1..t) : Cardinality(m) = num_mask}

\* emb[:, mask_index] = self.mask_emb (line 58).
MaskFill(emb, mask_index) ==
    [i \in DOMAIN emb |->
        [j \in DOMAIN emb[i] |-> IF j \in mask_index THEN MaskEmb ELSE emb[i][j]]]

\* Lines 53-58: mask_ratio None or 0.0 masks nothing.
MasksNothing(mask_ratio) == IsNone(mask_ratio) \/ mask_ratio.val = 0

\* The names bound in the module wavlm_kmeans_conformer: its imports
\* (lines 1-7) and its class (line 10).
ModuleGlobals ==
    {"nn", "KMeans", "torch", "Conformer", "HifiGan", "F", "ssim", "WavLMKmeansConformer"}

EmbTensors == UNION {[1..Batch -> [1..t -> 0..1]] : t \in 1..MaxFrames}

InitConformer ==
    /\ \/ /\ fw_pc = "call"
          /\ fw_in \in EmbTensors
          /\ fw_emb = fw_in
          /\ fw_mask_ratio \in {NoneVal} \cup {Some(num) : num \in 0..MaskDen}
          /\ fw_ret = <<>>
          /\ IaIdle
       \/ /\ ia_pc = "call"
          /\ ia_x \in UNION {[1..t -> {0}] : t \in 0..MaxFrames}
          /\ ia_exc = ""
          /\ ia_ret = <<>>
          /\ FwIdle
    /\ BioIdle /\ SidIdle /\ PtIdle /\ DcIdle /\ MoreIdle

\* forward (lines 52-69): the result holds the shape of res, the conformer
\* output, and emb, the second element of the returned tuple, which is the
\* caller's tensor object.
CallForward ==
    /\ fw_pc = "call"
    /\ IF MasksNothing(fw_mask_ratio)
       THEN fw_emb' = fw_emb
       ELSE \E mask_index \in MaskIndexSets(Len(fw_emb[1]),
                                            NumMask(Len(fw_emb[1]), fw_mask_ratio.val)) :
                fw_emb' = MaskFill(fw_emb, mask_index)
    /\ fw_ret' = [res_shape |-> <<Len(fw_emb), Len(fw_emb[1])>>, emb |-> fw_emb']
    /\ fw_pc' = "done"
    /\ UNCHANGED <<fw_in, fw_mask_ratio, ia_vars>>
    /\ UNCHANGED <<bio_vars, sid_vars, pt_vars, dc_vars, more_vars>>

\* inference_audio (line 96): the name split_audio is looked up in the
\* module's globals, where nothing binds it.
CallInferenceAudio ==
    /\ ia_pc = "call"
    /\ "split_audio" \notin ModuleGlobals
    /\ ia_pc' = "raised"
    /\ ia_exc' = "NameError"
    /\ UNCHANGED <<ia_x, ia_ret, fw_vars>>
    /\ UNCHANGED <<bio_vars, sid_vars, pt_vars, dc_vars, more_vars>>

NextConformer ==
    \/ CallForward
    \/ CallInferenceAudio

SpecConformer == InitConformer /\ [][NextConformer]_vars

(***************************************************************************)
(* LauraGenModel.nll                                                       *)
(*                                                                         *)
(* The output of codec_lm is a [B, T, predict_nq, vocabulary] tensor: a    *)
(* logit vector over Ids per batch row, position and quantizer.  nl_lm     *)
(* stands for the weights of the language model.                           *)
(***************************************************************************)

\* x[:, :n] of a batch of sequences (lines 206-207, 219-220).
TruncTime(x, n) == [i \in DOMAIN x |-> Take(x[i], n)]

\* The id the language model lm scores highest at position p of row i for
\* quantizer q.
LmPeak(lm, i, p, q) == (lm + i + p + q) % (CodebookSize + 1)

\* Lines 221-223, y of codec_lm reshaped to [B, T, n_q, E']: one logit vector
\* per position of the input; the only non-zero logit is that of the
\* highest-scored id and its value, 1000 i + 10 p + q, tells the position.
CodecLm(lm, sequence, predict_nq) ==
    [i \in DOMAIN sequence |->
        [p \in 1..Len(sequence[i]) |->
            [q \in 1..predict_nq |->
                [v \in Ids |-> IF v = LmPeak(lm, i, p, q) THEN 1000 * i + 10 * p + q ELSE 0]]]]

\* The frame pad_list(logits_list, 0.0) pads with.
ZeroLogits(predict_nq) == [q \in 1..predict_nq |-> [v \in Ids |-> 0]]

\* The extraction starting one position early, at the last text frame:
\* y[i, text_len:text_len + 1 + codec_len].
ExtractLogitsEarly(y, text_lengths, codec_lengths, predict_nq) ==
    PadList([i \in DOMAIN y |->
                SubSeq(y[i], text_lengths[i] + 1, text_lengths[i] + 1 + codec_lengths[i])],
            ZeroLogits(predict_nq))

\* Lines 225-228: y[i, text_len + 1:text_len + 2 + codec_len] for every row
\* (positions counted from 0), padded with zeros.
ExtractLogits(y, text_lengths, codec_lengths, predict_nq) ==
    PadList([i \in DOMAIN y |->
                SubSeq(y[i], text_lengths[i] + 2, text_lengths[i] + 2 + codec_lengths[i])],
            ZeroLogits(predict_nq))

\* criterion_ce summed over the vocabulary (lines 232-236) for one logit
\* vector and its target id: a positive loss, the lowest when the target has
\* the highest logit.
CrossEntropy(x, target) == 1 + MaxOver(x, Ids) - x[target]

\* Lines 231-236: the loss of every (row, time, quantizer) before masking.
NllUnmasked(logits, target) ==
    [i \in DOMAIN logits |->
        [t \in DOMAIN logits[i] |->
            [q \in DOMAIN logits[i][t] |->
                CrossEntropy(logits[i][t][q], target[i][t][q])]]]

\* make_pad_mask(lengths): [B, max(lengths)], True from position lengths[i] on.
MakePadMask(lengths) ==
    [i \in DOMAIN lengths |-> [j \in 1..SeqMax(lengths) |-> j > lengths[i]]]

\* Line 238 left out: no entry is filled.
MaskedFillNone(nll, y_lengths, predict_nq) == nll

\* Line 238: the flat (time, quantizer) entries the mask of
\* y_lengths * predict_nq marks are set to 0.
MaskedFill(nll, y_lengths, predict_nq) ==
    LET mask == MakePadMask([i \in DOMAIN y_lengths |-> y_lengths[i] * predict_nq])
    IN  [i \in DOMAIN nll |->
            [t \in DOMAIN nll[i] |->
                [q \in DOMAIN nll[i][t] |->
                    IF mask[i][(t - 1) * predict_nq + q] THEN 0 ELSE nll[i][t][q]]]]

NllRaise(exc) ==
    [raised |-> TRUE, exc |-> exc, nll |-> <<>>, logits |-> <<>>, target |-> <<>>,
     target_lengths |-> <<>>, sequence |-> <<>>, x_lengths |-> <<>>, y |-> <<>>]

\* nll (lines 188-242): the returned tuple (nll, logits, target,
\* codec_lengths + 1), together with the input and the output of codec_lm.
Nll(text, text_lengths, codec, codec_lengths, predict_nq, lm) ==
    LET io == BuildLlmIo(TruncTime(text, SeqMax(text_lengths)), text_lengths,
                         Some(TruncTime(codec, SeqMax(codec_lengths))), Some(codec_lengths),
                         TRUE, predict_nq)
    IN  IF io.raised THEN NllRaise(io.exc)
        ELSE LET sequence == TruncTime(io.llm_inputs, SeqMax(io.llm_lengths))
                 target == TruncTime(io.llm_targets, SeqMax(io.target_lengths))
                 y == CodecLm(lm, sequence, predict_nq)
                 logits == ExtractLogits(y, text_lengths, codec_lengths, predict_nq)
             IN  [raised |-> FALSE, exc |-> "",
                  nll |-> MaskedFill(NllUnmasked(logits, target), io.target_lengths, predict_nq),
                  logits |-> logits,
                  target |-> target,
                  target_lengths |-> [i \in DOMAIN codec_lengths |-> codec_lengths[i] + 1],
                  sequence |-> sequence,
                  x_lengths |-> io.llm_lengths,
                  y |-> y]

\* Length vectors whose rows differ: row i has length (i + s) modulo m + 1.
RampLengths(b, m) == {[i \in 1..b |-> (i + s) % (m + 1)] : s \in 0..m}

InitNll ==
    /\ nl_pc = "call"
    /\ nl_predict_nq \in 1..MaxNq
    /\ nl_text = TextTensor(Batch, MaxText)
    /\ nl_text_lengths \in RampLengths(Batch, MaxText)
    /\ nl_codec \in {CodecTensor(Batch, MaxCodec, nq, s) :
                        nq \in 1..MaxNq, s \in 0..(CodebookSize - 1)}
    /\ nl_codec_lengths \in Lengths(Batch, MaxCodec)
    /\ nl_lm \in 0..CodebookSize
    /\ nl_ret = <<>>
    /\ BioIdle /\ SidIdle /\ PtIdle /\ DcIdle /\ FwIdle /\ IaIdle /\ LfIdle /\ TwIdle

CallNll ==
    /\ nl_pc = "call"
    /\ nl_ret' = Nll(nl_text, nl_text_lengths, nl_codec, nl_codec_lengths,
                     nl_predict_nq, nl_lm)
    /\ nl_pc' = IF nl_ret'.raised THEN "raised" ELSE "done"
    /\ UNCHANGED <<nl_predict_nq, nl_text, nl_text_lengths, nl_codec, nl_codec_lengths, nl_lm>>
    /\ UNCHANGED <<bio_vars, sid_vars, pt_vars, dc_vars, fw_vars, ia_vars, lf_vars, tw_vars>>

NextNll == CallNll

SpecNll == InitNll /\ [][NextNll]_vars

(***************************************************************************)
(* LauraGenModel.forward                                                   *)
(*                                                                         *)
(* text, codec and aux are [B, L, E] feature tensors; lf_ret holds what    *)
(* forward computes: the text and the codec features after lines 399-406,  *)
(* the codec ids of line 407, the result of nll, the loss and the accuracy *)
(* statistics.                                                             *)
(***************************************************************************)

\* LauraGenModel.ignore_id (the default of the constructor).
ignore_id == 0 - 1

\* self.kmeans(codec), line 407: the id in 0..codebook_size - 1 of a frame.
KmeansQuantize(frame) == frame % CodebookSize

\* Lines 405-406 with the arguments of _pad_two exchanged: aux comes last.
AddAuxAfter(aux, aux_lengths, x, x_lengths) == PadTwo(x, x_lengths, aux, aux_lengths)

\* Lines 405-406: self._pad_two(aux, aux_lengths, x, x_lengths).
AddAux(aux, aux_lengths, x, x_lengths) == PadTwo(aux, aux_lengths, x, x_lengths)

\* argmax over the vocabulary: the first id holding the highest logit.
ArgMax(x) ==
    CHOOSE v \in Ids : x[v] = MaxOver(x, Ids) /\ \A u \in Ids : x[u] = x[v] => v <= u

\* th_accuracy(logits[:, :, q, :], target[:, :, q], ignore_label): the
\* numerator and the denominator of the ratio it returns.
ThAccuracy(logits, target, q, ignore_label) ==
    LET pos == {<<i, t>> : i \in DOMAIN target, t \in 1..Len(target[1])}
        mask == {c \in pos : target[c[1]][c[2]][q] # ignore_label}
    IN  [numerator |-> Cardinality({c \in mask :
                          ArgMax(logits[c[1]][c[2]][q]) = target[c[1]][c[2]][q]}),
         denominator |-> Cardinality(mask)]

RECURSIVE SumSeq(_)
SumSeq(xs) == IF xs = <<>> THEN 0 ELSE Head(xs) + SumSeq(Tail(xs))

\* Lines 413-416 with length_normalized_loss: the sum of the loss over the
\* positions before target_lengths, and the number of these entries.
NllLoss(nll, target_lengths, predict_nq) ==
    [sum |-> SumSeq([i \in DOMAIN nll |->
                SumSeq([t \in DOMAIN nll[i] |->
                    IF t <= target_lengths[i] THEN SumSeq(nll[i][t]) ELSE 0])]),
     denom |-> SumSeq(target_lengths) * predict_nq]

ForwardRaise(exc) ==
    [raised |-> TRUE, exc |-> exc, text |-> <<>>, text_lengths |-> <<>>,
     codec_feat |-> <<>>, codec_lengths |-> <<>>, codec |-> <<>>,
     logits |-> <<>>, target |-> <<>>, target_lengths |-> <<>>,
     loss |-> <<>>, seq_length |-> 0, out_acc |-> <<>>, weight |-> 0]

\* forward (lines 381-457).
Forward(text, text_lengths, codec, codec_lengths, aux, aux_lengths, predict_nq, lm) ==
    LET text0 == TruncTime(text, SeqMax(text_lengths))
        codec0 == TruncTime(codec, SeqMax(codec_lengths))
    IN  IF ~IsNone(aux) /\ IsNone(aux_lengths) THEN ForwardRaise("AssertionError")
        ELSE
        LET aux0 == IF IsNone(aux) THEN <<>>
                    ELSE TruncTime(aux.val, SeqMax(aux_lengths.val))
            t == IF IsNone(aux) THEN [res |-> text0, res_lens |-> text_lengths]
                 ELSE AddAux(aux0, aux_lengths.val, text0, text_lengths)
            c == IF IsNone(aux) THEN [res |-> codec0, res_lens |-> codec_lengths]
                 ELSE AddAux(aux0, aux_lengths.val, codec0, codec_lengths)
            ids == [i \in DOMAIN c.res |->
                      [j \in DOMAIN c.res[i] |-> <<KmeansQuantize(c.res[i][j])>>]]
            r == Nll(t.res, t.res_lens, ids, c.res_lens, predict_nq, lm)
        IN  IF r.raised THEN ForwardRaise(r.exc)
            ELSE [raised |-> FALSE, exc |-> "",
                  text |-> t.res, text_lengths |-> t.res_lens,
                  codec_feat |-> c.res, codec_lengths |-> c.res_lens, codec |-> ids,
                  logits |-> r.logits, target |-> r.target,
                  target_lengths |-> r.target_lengths,
                  loss |-> NllLoss(r.nll, r.target_lengths, predict_nq),
                  seq_length |-> SeqMax(t.res_lens) + SeqMax(c.res_lens),
                  out_acc |-> [q \in 1..predict_nq |->
                                  ThAccuracy(r.logits, r.target, q, ignore_id)],
                  weight |-> Len(r.nll) * predict_nq]

\* A [b, t, E] feature tensor whose frames tell their position.
FeatTensor(b, t, base) == [i \in 1..b |-> [j \in 1..t |-> base + 10 * i + j]]

InitLauraForward ==
    /\ lf_pc = "call"
    /\ lf_predict_nq \in 1..MaxNq
    /\ lf_text = TextTensor(Batch, MaxText)
    /\ lf_text_lengths \in RampLengths(Batch, MaxText)
    /\ lf_codec \in {FeatTensor(Batch, MaxCodec, 100 + s) : s \in 0..(CodebookSize - 1)}
    /\ lf_codec_lengths \in Lengths(Batch, MaxCodec)
    /\ lf_aux \in {NoneVal, Some(FeatTensor(Batch, MaxAux, 200))}
    /\ lf_aux_lengths \in {NoneVal} \cup
          (IF IsNone(lf_aux) THEN {} ELSE {Some(l) : l \in RampLengths(Batch, MaxAux)})
    /\ lf_lm \in 0..1
    /\ lf_ret = <<>>
    /\ BioIdle /\ SidIdle /\ PtIdle /\ DcIdle /\ FwIdle /\ IaIdle /\ NlIdle /\ TwIdle

CallLauraForward ==
    /\ lf_pc = "call"
    /\ lf_ret' = Forward(lf_text, lf_text_lengths, lf_codec, lf_codec_lengths,
                         lf_aux, lf_aux_lengths, lf_predict_nq, lf_lm)
    /\ lf_pc' = IF lf_ret'.raised THEN "raised" ELSE "done"
    /\ UNCHANGED <<lf_predict_nq, lf_text, lf_text_lengths, lf_codec, lf_codec_lengths,
                   lf_aux, lf_aux_lengths, lf_lm>>
    /\ UNCHANGED <<bio_vars, sid_vars, pt_vars, dc_vars, fw_vars, ia_vars, nl_vars, tw_vars>>

NextLauraForward == CallLauraForward

SpecLauraForward == InitLauraForward /\ [][NextLauraForward]_vars

(***************************************************************************)
(* LauraGenModel.decode_codec called twice with the same arguments         *)
(*                                                                         *)
(* tw_run is the call in progress (1, then 2) and tw_pc its position, as   *)
(* dc_pc; tw_trace is the list of out_tokens after each scoring iteration  *)
(* of this call, and tw_first what the first call left.  Both calls use    *)
(* the same language model and the same torch build: tw_score holds the    *)
(* pairs (input, scores) codec_lm.score has given so far and tw_topk the   *)
(* pairs (scores, ids) topk has given so far, and both stay functions.     *)
(* Draws of multinomial are not recorded: each call draws anew.            *)
(***************************************************************************)

\* A set of pairs is a function: one second component per first component.
IsFunction(pairs) == \A a, b \in pairs : a[1] = b[1] => a[2] = b[2]

\* An outcome of sampling_ids that is the result of line 469, topk(...)[1]:
\* returned ids without a candidate list.
IsTopkOutcome(o) == ~o.raised /\ o.indices = <<>>

InitDecodeTwice ==
    /\ tw_pc = "call"
    /\ tw_run = 1
    /\ tw_predict_nq \in 1..MaxNq
    /\ tw_text_in = TextTensor(1, MaxText)[1]
    /\ tw_aux \in {Some(OtherTensor(1, a)[1]) : a \in 0..MaxAux}
    /\ tw_max_length \in 0..MaxLength
    /\ tw_sampling \in {SamplingBool(FALSE), SamplingBool(TRUE)}
    /\ tw_beam_size = 1
    /\ tw_continual \in {NoneVal, Some(<<[q \in 1..tw_predict_nq |-> 0]>>)}
    /\ tw_text = <<>>
    /\ tw_lens = <<>>
    /\ tw_out_tokens = <<>>
    /\ tw_i = 0
    /\ tw_ret = <<>>
    /\ tw_exc = ""
    /\ tw_trace = <<>>
    /\ tw_score = {}
    /\ tw_topk = {}
    /\ tw_first = <<>>
    /\ BioIdle /\ SidIdle /\ PtIdle /\ DcIdle /\ FwIdle /\ IaIdle /\ NlIdle /\ LfIdle

tw_inputs == <<tw_predict_nq, tw_text_in, tw_aux, tw_max_length, tw_sampling,
               tw_beam_size, tw_continual>>

tw_others == <<bio_vars, sid_vars, pt_vars, dc_vars, fw_vars, ia_vars, nl_vars, lf_vars>>

\* Lines 514-528 (text_lengths=None).
TwiceSetup ==
    /\ tw_pc = "call"
    /\ tw_text' = <<tw_aux.val \o tw_text_in>>
    /\ tw_lens' = <<Len(tw_text'[1])>>
    /\ tw_out_tokens' = IF IsNone(tw_continual) THEN <<>>
                        ELSE Deepcopy(tw_continual.val).rows
    /\ tw_pc' = "loop"
    /\ UNCHANGED <<tw_inputs, tw_run, tw_i, tw_ret, tw_exc, tw_trace, tw_score, tw_topk,
                   tw_first>>
    /\ UNCHANGED tw_others

\* Lines 529-535.
TwiceBreak ==
    /\ tw_pc = "loop"
    /\ LoopContinues(tw_i, tw_max_length)
    /\ BreakOnEos(tw_out_tokens)
    /\ tw_i' = tw_i + 1
    /\ tw_pc' = "post"
    /\ UNCHANGED <<tw_inputs, tw_run, tw_text, tw_lens, tw_out_tokens, tw_ret, tw_exc,
                   tw_trace, tw_score, tw_topk, tw_first>>
    /\ UNCHANGED tw_others

\* Lines 529-555: the scores are those codec_lm.score gives for this input,
\* and the ids of a topk outcome are those topk gives for these scores.
TwiceStep ==
    /\ tw_pc = "loop"
    /\ LoopContinues(tw_i, tw_max_length)
    /\ ~BreakOnEos(tw_out_tokens)
    /\ tw_i' = tw_i + 1
    /\ LET io == DecodeInput(tw_text, tw_lens, tw_out_tokens, tw_predict_nq)
       IN  IF io.raised
           THEN /\ tw_pc' = "raised" /\ tw_exc' = "AssertionError"
                /\ UNCHANGED <<tw_out_tokens, tw_trace, tw_score, tw_topk>>
           ELSE \E pred \in [1..tw_predict_nq -> DecodeScores] :
                  /\ tw_score' = tw_score \cup {<<io.llm_inputs[1], pred>>}
                  /\ IsFunction(tw_score')
                  /\ \E outs \in [1..tw_predict_nq ->
                            UNION {SamplingIds(v, tw_sampling, tw_beam_size) : v \in DecodeScores}] :
                        /\ \A k \in 1..tw_predict_nq :
                              outs[k] \in SamplingIds(pred[k], tw_sampling, tw_beam_size)
                        /\ tw_topk' = tw_topk \cup
                              {<<pred[k], outs[k].top_ids>> :
                                  k \in {n \in 1..tw_predict_nq : IsTopkOutcome(outs[n])}}
                        /\ IsFunction(tw_topk')
                        /\ IF \E k \in 1..tw_predict_nq : outs[k].raised
                           THEN /\ tw_pc' = "raised"
                                /\ tw_exc' = outs[CHOOSE k \in 1..tw_predict_nq :
                                                    outs[k].raised /\ \A n \in 1..(k - 1) : ~outs[n].raised].exc
                                /\ UNCHANGED <<tw_out_tokens, tw_trace>>
                           ELSE /\ tw_pc' = "loop" /\ tw_exc' = ""
                                /\ tw_out_tokens' = Append(tw_out_tokens,
                                        [k \in 1..tw_predict_nq |-> outs[k].top_ids[1]])
                                /\ tw_trace' = Append(tw_trace, tw_out_tokens')
    /\ UNCHANGED <<tw_inputs, tw_run, tw_text, tw_lens, tw_ret, tw_first>>
    /\ UNCHANGED tw_others

\* Line 529: range(max_length) is exhausted.
TwiceExhausted ==
    /\ tw_pc = "loop"
    /\ ~LoopContinues(tw_i, tw_max_length)
    /\ tw_pc' = "post"
    /\ UNCHANGED <<tw_inputs, tw_run, tw_text, tw_lens, tw_out_tokens, tw_i, tw_ret, tw_exc,
                   tw_trace, tw_score, tw_topk, tw_first>>
    /\ UNCHANGED tw_others

\* Lines 558-561.
TwiceFinish ==
    /\ tw_pc = "post"
    /\ IF Len(tw_out_tokens) = 0
       THEN /\ tw_pc' = "raised" /\ tw_exc' = "IndexError"
            /\ UNCHANGED <<tw_out_tokens, tw_ret>>
       ELSE /\ tw_out_tokens' = RemoveEos(tw_out_tokens)
            /\ tw_pc' = "done" /\ tw_exc' = ""
            /\ tw_ret' = Drop(tw_out_tokens', Len(tw_aux.val))
    /\ UNCHANGED <<tw_inputs, tw_run, tw_text, tw_lens, tw_i, tw_trace, tw_score, tw_topk,
                   tw_first>>
    /\ UNCHANGED tw_others

\* The first call has ended: the caller keeps what it gave and calls again
\* with the same arguments.
TwiceCallAgain ==
    /\ tw_run = 1
    /\ tw_pc \in {"done", "raised"}
    /\ tw_first' = [pc |-> tw_pc, out_tokens |-> tw_out_tokens, i |-> tw_i,
                    ret |-> tw_ret, exc |-> tw_exc, trace |-> tw_trace]
    /\ tw_run' = 2
    /\ tw_pc' = "call"
    /\ tw_text' = <<>> /\ tw_lens' = <<>> /\ tw_out_tokens' = <<>>
    /\ tw_i' = 0 /\ tw_ret' = <<>> /\ tw_exc' = "" /\ tw_trace' = <<>>
    /\ UNCHANGED <<tw_inputs, tw_score, tw_topk>>
    /\ UNCHANGED tw_others

NextDecodeTwice ==
    \/ TwiceSetup
    \/ TwiceBreak
    \/ TwiceStep
    \/ TwiceExhausted
    \/ TwiceFinish
    \/ TwiceCallAgain

SpecDecodeTwice == InitDecodeTwice /\ [][NextDecodeTwice]_vars

\* C1: after build_llm_io returns, row i of llm_inputs is, position by
\* position, the sos_eos embedding, the first text_lengths[i] text frames, the
\* task_id embedding, the embeddings of the first codec_lengths[i] codec ids
\* (none when codec or codec_lengths is None) and then only zero padding, and
\* llm_lengths[i] = text_lengths[i] + 2 + codec_lengths[i] (+ 0 without codec).
BuildInputsLayout ==
    bio_pc = "done" =>
        LET has_codec == ~IsNone(bio_codec) /\ ~IsNone(bio_codec_lengths)
        IN  \A i \in 1..Batch :
                LET tl == bio_text_lengths[i]
                    cl == IF has_codec THEN bio_codec_lengths.val[i] ELSE 0
                    row == bio_ret.llm_inputs[i]
                IN  /\ bio_ret.llm_lengths[i] = tl + 2 + cl
                    /\ Len(row) >= tl + 2 + cl
                    /\ \A p \in 1..Len(row) :
                          row[p] = IF p = 1 THEN LmEmbedding(sos_eos)
                                   ELSE IF p <= tl + 1 THEN bio_text[i][p - 1]
                                   ELSE IF p = tl + 2 THEN LmEmbedding(task_id)
                                   ELSE IF p <= tl + 2 + cl
                                        THEN KmeansEmb(bio_codec.val[i][p - tl - 2][1])
                                   ELSE ZeroFrame

\* C1 witness: a returned batch with a codec part whose rows differ in
\* length, so that one row carries padding.
BuildInputsLayoutWitness ==
    /\ bio_pc = "done"
    /\ ~IsNone(bio_codec) /\ ~IsNone(bio_codec_lengths)
    /\ bio_codec_lengths.val[1] = 1 /\ bio_codec_lengths.val[2] = 2
    /\ bio_text_lengths[1] = 1 /\ bio_text_lengths[2] = 2
    /\ bio_ret.llm_lengths = [i \in 1..Batch |-> IF i = 1 THEN 4 ELSE IF i = 2 THEN 6 ELSE 2]

\* C2: with need_targets=True the targets have max(codec_lengths) + 1 time
\* steps; row i holds the first codec_lengths[i] codec ids, then EOS at index
\* codec_lengths[i]; the target length is codec_lengths[i] + 1; EOS occurs
\* exactly once in the valid part, at its last position.
BuildTargetsLayout ==
    (bio_pc = "done" /\ bio_need_targets) =>
        /\ bio_ret.has_targets
        /\ \A i \in 1..Batch :
            LET cl == bio_codec_lengths.val[i]
                row == bio_ret.llm_targets[i]
            IN  /\ Len(row) = SeqMax(bio_codec_lengths.val) + 1
                /\ bio_ret.target_lengths[i] = cl + 1
                /\ \A j \in 1..cl : \A q \in 1..bio_predict_nq :
                      row[j][q] = bio_codec.val[i][j][1]
                /\ \A q \in 1..bio_predict_nq :
                      /\ Len(row[cl + 1]) = bio_predict_nq
                      /\ row[cl + 1][q] = EosId
                      /\ {j \in 1..(cl + 1) : row[j][q] = EosId} = {cl + 1}

\* C2 witness: targets returned for rows of different codec lengths.
BuildTargetsLayoutWitness ==
    /\ bio_pc = "done" /\ bio_need_targets
    /\ bio_codec_lengths.val[1] = 1 /\ bio_codec_lengths.val[2] = 2
    /\ Len(bio_ret.llm_targets[1]) = 3
    /\ bio_ret.llm_targets[1][2][1] = EosId

\* C5: sampling_ids with sampling=False returns beam_size distinct ids whose
\* scores are the beam_size highest of weighted_scores in descending order
\* (position a carries the a-th highest score), so the first one is an
\* argmax, and nothing but the scores decides the scores returned.
SamplingFalseIsTopBeam ==
    (sid_pc \in {"done", "raised"} /\ sid_sampling.type = "bool" /\ ~sid_sampling.b
        /\ sid_beam_size <= Cardinality(Ids)) =>
        LET ids == sid_ret.top_ids
            by_score == SortedIdx(sid_weighted_scores, Ids)
        IN  /\ sid_pc = "done"
            /\ Len(ids) = sid_beam_size
            /\ \A a, b \in 1..Len(ids) : a < b => ids[a] # ids[b]
            /\ \A a \in 1..Len(ids) :
                  sid_weighted_scores[ids[a]] = sid_weighted_scores[by_score[a]]
            /\ \A x \in Ids : sid_weighted_scores[x] <= sid_weighted_scores[ids[1]]
            /\ \A x \in Ids : (\A a \in 1..Len(ids) : ids[a] # x) =>
                  \A a \in 1..Len(ids) : sid_weighted_scores[x] <= sid_weighted_scores[ids[a]]

\* C5 witness: beam_size 2 returned for three different scores, the lowest
\* id not being the best.
SamplingFalseIsTopBeamWitness ==
    /\ sid_pc = "done"
    /\ sid_sampling.type = "bool" /\ ~sid_sampling.b
    /\ sid_beam_size = 2
    /\ sid_weighted_scores[0] = 0 /\ sid_weighted_scores[1] = 2 /\ sid_weighted_scores[2] = 1
    /\ sid_ret.top_ids = <<1, 2>>

\* C6: sampling_ids with an integer sampling = k returns beam_size ids (drawn
\* with replacement), each of them among the k ids with the highest scores:
\* fewer than k ids score strictly higher than a returned id.
SamplingIntIsTopK ==
    (sid_pc = "done" /\ sid_sampling.type = "int") =>
        /\ Len(sid_ret.top_ids) = sid_beam_size
        /\ Len(sid_ret.indices) = sid_sampling.k
        /\ \A a \in 1..Len(sid_ret.top_ids) :
              LET x == sid_ret.top_ids[a]
              IN  /\ \E c \in 1..Len(sid_ret.indices) : sid_ret.indices[c] = x
                  /\ Cardinality({y \in Ids : sid_weighted_scores[y] > sid_weighted_scores[x]})
                        < sid_sampling.k

\* C6 witness: top-2 sampling over three different scores returns the second
\* best id twice.
SamplingIntIsTopKWitness ==
    /\ sid_pc = "done"
    /\ sid_sampling.type = "int" /\ sid_sampling.k = 2
    /\ sid_beam_size = 2
    /\ sid_weighted_scores[0] = 1 /\ sid_weighted_scores[1] = 0 /\ sid_weighted_scores[2] = 2
    /\ sid_ret.top_ids = <<0, 0>>

\* The length of the shortest prefix of the ids, sorted by descending
\* probability, whose cumulative probability is at least pnum / PDen; all
\* ids when no prefix reaches it.
ShortestPrefixLen(scores, pnum) ==
    LET w == Softmax(scores)
        sorted_idx == SortedIdx(w, Ids)
        total == SumOver(w, Ids)
        cum(n) == SumOver([a \in 1..n |-> w[sorted_idx[a]]], 1..n)
        reach == {n \in 0..Len(sorted_idx) : cum(n) * PDen >= pnum * total}
    IN  IF reach = {} THEN Len(sorted_idx)
        ELSE CHOOSE n \in reach : \A m \in reach : n <= m

\* C7: sampling_ids with a float sampling = p: the candidate set is the
\* shortest prefix of the ids sorted by descending probability whose
\* cumulative probability is at least p (all ids if none is), it is non-empty
\* for every float p, and every returned id belongs to it.
SamplingFloatIsNucleus ==
    (sid_pc \in {"done", "raised"} /\ sid_sampling.type = "float") =>
        /\ sid_ret.indices =
              SubSeq(SortedIdx(Softmax(sid_weighted_scores), Ids), 1,
                     ShortestPrefixLen(sid_weighted_scores, sid_sampling.pnum))
        /\ sid_ret.indices # <<>>
        /\ sid_pc = "done"
        /\ \A a \in 1..Len(sid_ret.top_ids) :
              \E c \in 1..Len(sid_ret.indices) : sid_ret.indices[c] = sid_ret.top_ids[a]

\* C8: after _pad_two returns, row i of the result is the first t1_lens[i]
\* frames of t1[i], immediately followed by the first t2_lens[i] frames of
\* t2[i], then only zero padding up to max_i(t1_lens[i] + t2_lens[i]); the
\* returned length is t1_lens[i] + t2_lens[i]; the docstring's example gives
\* the docstring's result.
PadTwoLayout ==
    pt_pc = "done" =>
        /\ \A i \in DOMAIN pt_t1_lens :
              LET l1 == pt_t1_lens[i]
                  l2 == pt_t2_lens[i]
                  row == pt_ret.res[i]
              IN  /\ pt_ret.res_lens[i] = l1 + l2
                  /\ Len(row) = SeqMax([k \in DOMAIN pt_t1_lens |->
                                           pt_t1_lens[k] + pt_t2_lens[k]])
                  /\ \A p \in 1..Len(row) :
                        row[p] = IF p <= l1 THEN pt_t1[i][p]
                                 ELSE IF p <= l1 + l2 THEN pt_t2[i][p - l1]
                                 ELSE ZeroFrame
        /\ (pt_t1 = DocT1 /\ pt_t1_lens = DocT1Len /\ pt_t2 = DocT2 /\ pt_t2_lens = DocT2Len)
              => (pt_ret.res = DocRes /\ pt_ret.res_lens = DocResLen)

\* C8 witness: the docstring's call has returned, with lengths [7, 4, 2].
PadTwoLayoutWitness ==
    /\ pt_pc = "done"
    /\ pt_t1 = DocT1 /\ pt_t1_lens = <<3, 2, 1>>
    /\ pt_t2 = DocT2 /\ pt_t2_lens = <<4, 2, 1>>
    /\ pt_ret.res_lens = <<7, 4, 2>>
    /\ pt_ret.res[2] = <<-1, -2, -10, -20, 0, 0, 0>>

\* The number of rows the caller's continual list brought.
ContinualLen == IF IsNone(dc_continual) THEN 0 ELSE Len(dc_continual.val)

\* The loop has appended a row holding EOS, and it is the last row.
EosAppended ==
    /\ dc_pc \in {"loop", "post"}
    /\ Len(dc_out_tokens) > ContinualLen
    /\ HasEos(Last(dc_out_tokens))

\* The progress of a call: every step of decode_codec raises it, and it
\* never exceeds dc_max_length + 3.
DecodeRank ==
    IF dc_pc = "call" THEN 0
    ELSE IF dc_pc = "loop" THEN 1 + dc_i
    ELSE IF dc_pc = "post" THEN dc_max_length + 2
    ELSE dc_max_length + 3

\* Some step of decode_codec can be taken: the setup, the return, or for the
\* loop its exit, its break, a raising build_llm_io or a sampled outcome.
DecodeCanStep ==
    \/ dc_pc \in {"call", "post"}
    \/ /\ dc_pc = "loop"
       /\ \/ ~LoopContinues(dc_i, dc_max_length)
          \/ BreakOnEos(dc_out_tokens)
          \/ DecodeInput(dc_text, dc_lens, dc_out_tokens, dc_predict_nq).raised
          \/ SampledRows(dc_sampling, dc_beam_size, dc_predict_nq) # {}

\* C3: decode_codec terminates: a call that has neither returned nor raised
\* can always take a step and every step raises the bounded DecodeRank; its
\* loop starts at most max_length iterations and appends at most max_length
\* rows, one row of predict_nq ids per scoring iteration; and once a row
\* holding EOS has been appended, no further scoring or sampling step happens.
DecodeTerminates ==
    /\ [](dc_pc \in {"loop", "post"} =>
            /\ dc_i <= dc_max_length
            /\ dc_nscore <= dc_i
            /\ Len(dc_out_tokens) - ContinualLen = dc_nscore
            /\ Len(dc_out_tokens) - ContinualLen <= dc_max_length
            /\ \A n \in (ContinualLen + 1)..Len(dc_out_tokens) :
                  Len(dc_out_tokens[n]) = dc_predict_nq)
    /\ [](dc_pc \notin {"done", "raised"} => DecodeCanStep)
    /\ [](DecodeRank <= dc_max_length + 3)
    /\ [][DecodeRank' > DecodeRank]_vars
    /\ [][EosAppended => (dc_nscore' = dc_nscore /\ Len(dc_out_tokens') <= Len(dc_out_tokens))]_vars

\* C3 witness: the second of two iterations found the EOS row appended by
\* the first and left the loop without scoring.
DecodeTerminatesWitness ==
    /\ dc_pc = "post"
    /\ dc_max_length = 2 /\ dc_i = 2 /\ dc_nscore = 1
    /\ IsNone(dc_continual)
    /\ EosAppended

\* C4: decode_codec called with continual=None returns no EOS id.
DecodeReturnsNoEos ==
    (dc_pc = "done" /\ IsNone(dc_continual)) =>
        \A n \in 1..Len(dc_ret) : ~HasEos(dc_ret[n])

\* C4 witness: a call with continual=None and two quantizers returned after
\* sampling EOS in the second quantizer only; the row was removed.
DecodeReturnsNoEosWitness ==
    /\ dc_pc = "done" /\ IsNone(dc_continual)
    /\ dc_predict_nq = 2
    /\ dc_nscore = 1 /\ dc_i = 2
    /\ Len(dc_aux.val) = 0
    /\ dc_ret = <<>>

\* C9: forward returns as its second result the embedding that was passed
\* in, no time step replaced by the mask embedding, and leaves the caller's
\* tensor unchanged, for every mask_ratio.
ForwardReturnsCleanEmb ==
    fw_pc = "done" => (fw_ret.emb = fw_in /\ fw_emb = fw_in)

\* C10: inference_audio returns audio of exactly x.size(1) samples for every
\* input length.
InferenceAudioKeepsLength ==
    ia_pc \in {"done", "raised"} => (ia_pc = "done" /\ Len(ia_ret) = Len(ia_x))

\* C20: build_llm_io with need_targets=True and codec or codec_lengths None
\* fails the assertion "need_target=True, but codec or codec_length is None"
\* with no input and no target built; with need_targets=False a call that
\* returns gives llm_inputs and llm_lengths only, no targets and no target
\* lengths, with and without codec.
BuildAssertsNeedTargets ==
    /\ (bio_pc \in {"done", "raised"} /\ bio_need_targets
            /\ (IsNone(bio_codec) \/ IsNone(bio_codec_lengths))) =>
          /\ bio_pc = "raised"
          /\ bio_ret.exc = "AssertionError:need_target"
          /\ ~bio_ret.built
          /\ bio_ret.llm_inputs = <<>> /\ bio_ret.llm_targets = <<>>
    /\ (bio_pc = "done" /\ ~bio_need_targets) =>
          /\ bio_ret.built /\ ~bio_ret.has_targets
          /\ Len(bio_ret.llm_inputs) = Batch /\ Len(bio_ret.llm_lengths) = Batch
          /\ bio_ret.llm_targets = <<>> /\ bio_ret.target_lengths = <<>>

\* C20 witness: a call that needs targets and was given the codec without
\* its lengths has raised the assertion.
BuildAssertsNeedTargetsWitness ==
    /\ bio_pc = "raised"
    /\ bio_need_targets
    /\ ~IsNone(bio_codec) /\ IsNone(bio_codec_lengths)
    /\ bio_ret.exc = "AssertionError:need_target"

\* C19: sampling_ids tests bool before int: with sampling=True every outcome
\* is a draw over the full distribution and none is a top-k outcome with
\* k = 1; with sampling=False every outcome is the top beam_size and none is
\* a top-k outcome with k = 0; a sampling that is no bool, int or float
\* raises NotImplementedError and returns no ids.
SamplingDispatch ==
    sid_pc \in {"done", "raised"} =>
        /\ (sid_sampling.type = "bool" /\ sid_sampling.b) =>
              /\ sid_ret \in SampleFull(sid_weighted_scores, sid_beam_size)
              /\ sid_ret \notin SampleTopK(sid_weighted_scores, 1, sid_beam_size)
              /\ sid_pc = "done"
              /\ Len(sid_ret.indices) = Cardinality(Ids)
        /\ (sid_sampling.type = "bool" /\ ~sid_sampling.b) =>
              /\ sid_ret \in SampleTopBeam(sid_weighted_scores, sid_beam_size)
              /\ sid_ret \notin SampleTopK(sid_weighted_scores, 0, sid_beam_size)
              /\ sid_beam_size <= Cardinality(Ids) =>
                    (sid_pc = "done" /\ Len(sid_ret.top_ids) = sid_beam_size)
        /\ sid_sampling.type \notin {"bool", "int", "float"} =>
              /\ sid_pc = "raised"
              /\ sid_ret.exc = "NotImplementedError"
              /\ sid_ret.top_ids = <<>>

\* C19 witness: sampling=True has returned an id that is not the best one,
\* which top-k sampling with k = 1 cannot return.
SamplingDispatchWitness ==
    /\ sid_pc = "done"
    /\ sid_sampling.type = "bool" /\ sid_sampling.b
    /\ sid_beam_size = 1
    /\ sid_weighted_scores[0] = 2 /\ sid_weighted_scores[1] = 1
    /\ sid_ret.top_ids = <<1>>

\* C17: decode_codec does not modify the caller's continual list: at every
\* point of the call it holds the rows it held at the call; the input of the
\* first scoring step is sos_eos, the text, task_id and then the embedding of
\* every continual row; and when the last continual row holds EOS no scoring
\* step is made.
DecodeResumesContinual ==
    dc_pc \in {"loop", "post", "done", "raised"} =>
        /\ dc_caller_continual = dc_continual
        /\ (dc_nscore = 1 /\ ~IsNone(dc_continual)) =>
              dc_seq_input = <<LmEmbedding(sos_eos)>> \o dc_text[1] \o <<LmEmbedding(task_id)>>
                    \o [n \in 1..ContinualLen |-> KmeansEmb(dc_continual.val[n][1])]
        /\ (ContinualLen > 0 /\ HasEos(Last(dc_continual.val))) => dc_nscore = 0

\* C17 witness: a call resumed from one continual row has scored once,
\* appended a second row and returned.
DecodeResumesContinualWitness ==
    /\ dc_pc = "done"
    /\ ContinualLen = 1 /\ ~HasEos(dc_continual.val[1])
    /\ dc_nscore = 1
    /\ Len(dc_out_tokens) = 2
    /\ Len(dc_seq_input) = Len(dc_text[1]) + 3

DecodeHandlesNoAux ==
    (/\ dc_pc \in {"done", "raised"}
     /\ dc_predict_nq = 1
     /\ dc_sampling.type = "bool"
     /\ IsNone(dc_continual) \/ Len(dc_continual.val) > 0
     /\ IsNone(dc_text_lengths) \/ ~IsNone(dc_aux_lengths)) =>
        /\ dc_pc = "done"
        /\ IsNone(dc_aux) => dc_ret = dc_out_tokens

\* C11: for every row i of a returned nll call, the logits are the
\* language-model outputs at the positions text_lengths[i] + 1 through
\* text_lengths[i] + 1 + codec_lengths[i] (counted from 0): as many as the
\* target length codec_lengths[i] + 1, all inside the valid input length
\* text_lengths[i] + 2 + codec_lengths[i]; the first is the output at the
\* task_id position and is paired with target codec id 0, the k-th is the
\* output at codec id k - 1 and is paired with codec id k, and the last is
\* paired with EOS.
NllExtractsTargetPositions ==
    nl_pc = "done" =>
        \A i \in 1..Batch :
            LET tl == nl_text_lengths[i]
                cl == nl_codec_lengths[i]
            IN  /\ nl_ret.target_lengths[i] = cl + 1
                /\ nl_ret.x_lengths[i] = tl + 2 + cl
                /\ \A k \in 0..cl :
                      \* position tl + 1 + k counted from 0 is index tl + 2 + k
                      /\ tl + 2 + k <= nl_ret.x_lengths[i]
                      /\ nl_ret.logits[i][k + 1] = nl_ret.y[i][tl + 2 + k]
                      /\ nl_ret.sequence[i][tl + 2 + k] =
                            (IF k = 0 THEN LmEmbedding(task_id)
                             ELSE KmeansEmb(nl_codec[i][k][1]))
                      /\ \A q \in 1..nl_predict_nq :
                            /\ nl_ret.target[i][k + 1][q] =
                                  (IF k < cl THEN nl_codec[i][k + 1][1] ELSE EosId)
                            /\ nl_ret.nll[i][k + 1][q] =
                                  CrossEntropy(nl_ret.y[i][tl + 2 + k][q],
                                               nl_ret.target[i][k + 1][q])

\* C11 witness: a returned call whose rows differ in text and codec length.
NllExtractsTargetPositionsWitness ==
    /\ nl_pc = "done"
    /\ nl_text_lengths[1] = 2 /\ nl_text_lengths[2] = 0
    /\ nl_codec_lengths[1] = 1 /\ nl_codec_lengths[2] = 2
    /\ nl_ret.logits[1][2] = nl_ret.y[1][5]
    /\ nl_ret.target[1][2][1] = EosId

\* C12: the loss nll returns has the shape (batch, max(codec_lengths) + 1,
\* predict_nq); in row i every entry at a time position >= codec_lengths[i] + 1
\* (counted from 0) is 0; and the returned target lengths are codec_lengths + 1.
NllPaddingIsZero ==
    nl_pc = "done" =>
        /\ Len(nl_ret.nll) = Batch
        /\ \A i \in 1..Batch :
              /\ Len(nl_ret.nll[i]) = SeqMax(nl_codec_lengths) + 1
              /\ nl_ret.target_lengths[i] = nl_codec_lengths[i] + 1
              /\ \A t \in 1..Len(nl_ret.nll[i]) :
                    /\ Len(nl_ret.nll[i][t]) = nl_predict_nq
                    /\ t > nl_codec_lengths[i] + 1 =>
                          \A q \in 1..nl_predict_nq : nl_ret.nll[i][t][q] = 0

\* C12 witness: a returned loss for two quantizers in which row 1 has two
\* padding positions and first a non-zero entry.
NllPaddingIsZeroWitness ==
    /\ nl_pc = "done"
    /\ nl_predict_nq = 2
    /\ nl_codec_lengths[1] = 0 /\ nl_codec_lengths[2] = 2
    /\ nl_ret.nll[1][1][2] > 0
    /\ nl_ret.nll[1][3] = <<0, 0>>

\* The number of target positions of the batch before the target lengths.
ValidTargets == SumSeq(lf_ret.target_lengths)

\* C13: the accuracy out_acc_k of forward counts valid target positions only:
\* a target at a time position >= codec_lengths[i] + 1 holds the ignore id,
\* the denominator is the number of valid positions, and the numerator is
\* the number of valid positions whose highest logit is the target's.
ForwardAccuracyIgnoresPadding ==
    lf_pc = "done" =>
        \A q \in 1..lf_predict_nq :
            /\ \A i \in 1..Batch : \A t \in 1..Len(lf_ret.target[i]) :
                  t > lf_ret.target_lengths[i] => lf_ret.target[i][t][q] = ignore_id
            /\ lf_ret.out_acc[q].denominator = ValidTargets
            /\ lf_ret.out_acc[q].numerator =
                  Cardinality({c \in (1..Batch) \X (1..Len(lf_ret.target[1])) :
                      /\ c[2] <= lf_ret.target_lengths[c[1]]
                      /\ ArgMax(lf_ret.logits[c[1]][c[2]][q]) = lf_ret.target[c[1]][c[2]][q]})

\* The row that line 405 or 406 builds of aux and x, and its padding.
AuxThenRow(x, x_lengths, res, i) ==
    LET al == lf_aux_lengths.val[i]
    IN  /\ Len(res[i]) >= al + x_lengths[i]
        /\ \A p \in 1..Len(res[i]) :
              res[i][p] = IF p <= al THEN lf_aux.val[i][p]
                          ELSE IF p <= al + x_lengths[i] THEN x[i][p - al]
                          ELSE ZeroFrame

\* C14: forward with aux given makes of row i of text the first
\* aux_lengths[i] frames of aux followed by the first text_lengths[i] frames
\* of text, and of the codec features the same aux frames followed by the
\* first codec_lengths[i] codec frames; both lengths grow by aux_lengths[i].
\* With aux=None the sequences are the given ones up to the longest length
\* of the batch, and the lengths are the given ones.
ForwardAddsAux ==
    lf_pc = "done" =>
        IF IsNone(lf_aux)
        THEN /\ lf_ret.text = TruncTime(lf_text, SeqMax(lf_text_lengths))
             /\ lf_ret.codec_feat = TruncTime(lf_codec, SeqMax(lf_codec_lengths))
             /\ lf_ret.text_lengths = lf_text_lengths
             /\ lf_ret.codec_lengths = lf_codec_lengths
        ELSE \A i \in 1..Batch :
                /\ lf_ret.text_lengths[i] = lf_text_lengths[i] + lf_aux_lengths.val[i]
                /\ lf_ret.codec_lengths[i] = lf_codec_lengths[i] + lf_aux_lengths.val[i]
                /\ AuxThenRow(lf_text, lf_text_lengths, lf_ret.text, i)
                /\ AuxThenRow(lf_codec, lf_codec_lengths, lf_ret.codec_feat, i)

\* C14 witness: forward returned for a batch in which row 2 has one aux
\* frame, two text frames and one codec frame.
ForwardAddsAuxWitness ==
    /\ lf_pc = "done"
    /\ ~IsNone(lf_aux)
    /\ lf_aux_lengths.val[2] = 1
    /\ lf_text_lengths[2] = 2 /\ lf_codec_lengths[2] = 1
    /\ lf_ret.text[2] = <<221, 21, 22>>
    /\ lf_ret.codec_lengths[2] = 2

\* C18: decode_codec with sampling=False is deterministic.  In a second call
\* with the same text, aux, max_length and continual, against the same
\* scoring function, out_tokens after every scoring iteration is what it was
\* after the same iteration of the first call, and the second call ends as
\* the first did: the same returned rows, or the same exception.
DecodeDeterministic ==
    (tw_run = 2 /\ tw_sampling.type = "bool" /\ ~tw_sampling.b) =>
        /\ Len(tw_trace) <= Len(tw_first.trace)
        /\ \A n \in 1..Len(tw_trace) : tw_trace[n] = tw_first.trace[n]
        /\ tw_pc \in {"done", "raised"} =>
              /\ tw_trace = tw_first.trace
              /\ tw_pc = tw_first.pc
              /\ tw_i = tw_first.i
              /\ tw_out_tokens = tw_first.out_tokens
              /\ tw_ret = tw_first.ret
              /\ tw_exc = tw_first.exc

\* C18 witness: the second call has returned two rows, the first of them
\* chosen by topk among equal scores.
DecodeDeterministicWitness ==
    /\ tw_run = 2 /\ tw_pc = "done"
    /\ tw_sampling.type = "bool" /\ ~tw_sampling.b
    /\ Len(tw_aux.val) = 0
    /\ Len(tw_ret) = 2
    /\ <<[y \in Ids |-> 0], <<1>>>> \in tw_topk
    /\ tw_ret[1] = <<1>>

====
